---------------------------- MODULE Spec2Model ----------------------------
(***************************************************************************)
(* Model of the replay DOM inspect button (replayDOMInspectButton.tsx)     *)
(* and of the query modal it opens (replayInspectQueryModal.tsx).          *)
(*                                                                         *)
(* A string is held run-length encoded: a sequence of runs << c, n >>, the  *)
(* character c repeated n >= 1 times, neighbouring runs holding different  *)
(* characters.  Every string has exactly one such encoding, so equality of *)
(* encodings is equality of strings; length, +, slice and trim are         *)
(* computed on the runs as the code computes them on the characters.       *)
(* A handler is an operator from a record of the mutable state to the      *)
(* record after the handler; an action applies one handler to the current  *)
(* state and commits the result.                                           *)
(*                                                                         *)
(* React's scheduling: a state update made by a listener added with        *)
(* addEventListener on the iframe document is rendered later (Render),     *)
(* so further iframe events can reach the listeners of the previous        *)
(* render; an update made in the button's onClick or in a keydown of the   *)
(* parent document is rendered, and its effects run, before the next       *)
(* event (flushSync).                                                      *)
(***************************************************************************)
EXTENDS Integers, Sequences, FiniteSets, TLC

VARIABLES
    mounted,              \* the button component is mounted
    isInspecting,         \* useState value, queued updates applied
    renderedInspecting,   \* isInspecting as seen by the last render's closures
    wasPlayingRef,        \* wasPlayingRef.current
    previousHighlightRef, \* previousHighlightRef.current: an element or Null
    previousStyleRef,     \* previousStyleRef.current
    cssText,              \* element -> its style.cssText
    bodyCursor,           \* iframe body.style.cursor
    listeners,            \* listener key -> number of registrations
    hasCleanup,           \* the last effect run returned a cleanup function
    iframeReady,          \* getReplayIframe()?.contentDocument is non-null
    isPlaying,            \* replay context: playback is running
    domLimit,             \* the limit the recorded page's markup sizes sit at
    modalOpen,            \* the query modal is shown
    selectedHtml,         \* the modal's selectedHtml prop
    preview,              \* what the modal's read-only textarea shows
    query,                \* the modal's query input
    log,                  \* calls made by the most recent handler, in order
    lastMessage,          \* argument of openSeerExplorer in the most recent handler
    sessionWasPlaying     \* history: isPlaying when inspection was last toggled on

vars == << mounted, isInspecting, renderedInspecting, wasPlayingRef,
           previousHighlightRef, previousStyleRef, cssText, bodyCursor,
           listeners, hasCleanup, iframeReady, isPlaying, domLimit, modalOpen,
           selectedHtml, preview, query, log, lastMessage, sessionWasPlaying >>

-----------------------------------------------------------------------------
(* Strings *)

\* The recursions halve the sequence of runs, so their depth is logarithmic.

\* String.prototype.length
RECURSIVE Length(_)
Length(s) ==
    IF s = << >> THEN 0
    ELSE IF Len(s) = 1 THEN s[1][2]
    ELSE LET h == Len(s) \div 2
         IN  Length(SubSeq(s, 1, h)) + Length(SubSeq(s, h + 1, Len(s)))

\* a + b
Concat(a, b) ==
    IF a = << >> THEN b
    ELSE IF b = << >> THEN a
    ELSE IF a[Len(a)][1] = b[1][1]
         THEN SubSeq(a, 1, Len(a) - 1)
                \o << << b[1][1], a[Len(a)][2] + b[1][2] >> >> \o Tail(b)
         ELSE a \o b

\* the string of n copies of the character c
Repeat(c, n) == IF n <= 0 THEN << >> ELSE << << c, n >> >>

\* the string whose characters are the entries of the tuple chars
RECURSIVE Str(_)
Str(chars) ==
    IF chars = << >> THEN << >>
    ELSE IF Len(chars) = 1 THEN Repeat(chars[1], 1)
    ELSE LET h == Len(chars) \div 2
         IN  Concat(Str(SubSeq(chars, 1, h)), Str(SubSeq(chars, h + 1, Len(chars))))

\* String.prototype.slice(0, n) for n >= 0: the first n characters, all of s
\* when it is shorter
RECURSIVE Slice(_, _)
Slice(s, n) ==
    IF n <= 0 \/ s = << >> THEN << >>
    ELSE IF Len(s) = 1
         THEN << << s[1][1], IF s[1][2] < n THEN s[1][2] ELSE n >> >>
    ELSE LET h == Len(s) \div 2
             front == SubSeq(s, 1, h)
             m == Length(front)
         IN  IF n <= m THEN Slice(front, n)
             ELSE front \o Slice(SubSeq(s, h + 1, Len(s)), n - m)

\* String.prototype.trim, the space being the only whitespace of the inputs
Trim(s) ==
    LET t == IF s # << >> /\ Head(s)[1] = " " THEN Tail(s) ELSE s
    IN  IF t # << >> /\ t[Len(t)][1] = " " THEN SubSeq(t, 1, Len(t) - 1) ELSE t

-----------------------------------------------------------------------------
(* Program constants *)

HIGHLIGHT_STYLE ==
  Str(
    << "o", "u", "t", "l", "i", "n", "e", ":", " ", "2", "p", "x", " ", "s", "o", "l",
       "i", "d", " ", "#", "6", "C", "5", "F", "C", "7", " ", "!", "i", "m", "p", "o",
       "r", "t", "a", "n", "t", ";", " ", "o", "u", "t", "l", "i", "n", "e", "-", "o",
       "f", "f", "s", "e", "t", ":", " ", "-", "1", "p", "x", " ", "!", "i", "m", "p",
       "o", "r", "t", "a", "n", "t", ";", " ", "c", "u", "r", "s", "o", "r", ":", " ",
       "c", "r", "o", "s", "s", "h", "a", "i", "r", " ", "!", "i", "m", "p", "o", "r",
       "t", "a", "n", "t", ";" >>)

CAPTURE_LIMIT == 10000

PROMPT_LIMIT == 5000

PREVIEW_LIMIT == 200

TRUNCATED_SUFFIX ==
    Str(<< "\n", ".", ".", ".", " ", "(", "t", "r", "u", "n", "c", "a", "t", "e",
           "d", ")" >>)

PREVIEW_SUFFIX == Str(<< ".", ".", "." >>)

PROMPT_INTRO ==
    "\n\nThe user selected the following DOM element from a Session Replay recording. Use this HTML context to focus your investigation:\n\n"

\* the template's code fence; a TLA+ string cannot hold a backquote
FENCE_OPEN == "<backquote><backquote><backquote>html\n"

FENCE_CLOSE == "\n<backquote><backquote><backquote>"

PROMPT_OUTRO ==
    "\n\nPlease use this HTML as context to help investigate the user's query. The HTML represents a specific element the user identified in their session replay as relevant to their question."

-----------------------------------------------------------------------------
(* Bounds and input sets *)

MaxQueryLen == 2

QueryChars == {" ", "a"}

\* every value the query input can hold
QueryValues ==
    {Str(chars) : chars \in UNION {[1..n -> QueryChars] : n \in 0..MaxQueryLen}}

Null == "null"

Elements == {"e1", "e2"}

Roots == {"html", "body"}

Targets == Roots \cup Elements

Keys == {"Escape", "Enter"}

ListenerKeys ==
    {"iframe:mouseover", "iframe:mouseout", "iframe:click", "iframe:keydown",
     "parent:keydown"}

-----------------------------------------------------------------------------
(* The recorded page inside the iframe *)

OpenTag == Str(<< "<", "d", "i", "v", " ", "s", "t", "y", "l", "e", "=", "\"" >>)

OpenTagEnd == Str(<< "\"", ">" >>)

CloseTag == Str(<< "<", "/", "d", "i", "v", ">" >>)

OrigStyle(e) ==
    IF e = "e1" THEN << >>
    ELSE Str(<< "c", "o", "l", "o", "r", ":", " ", "r", "e", "d", ";" >>)

\* e1's markup is exactly limit characters long before any highlight, e2's one more
InnerLen(e, limit) ==
    limit + (IF e = "e2" THEN 1 ELSE 0)
      - Length(OpenTag) - Length(OrigStyle(e)) - Length(OpenTagEnd)
      - Length(CloseTag)

\* the element's text: n characters
InnerText(n) == Repeat("x", n)

\* the element serialised with its style attribute as it is now
outerHTML(css, e, limit) ==
    Concat(OpenTag,
      Concat(css[e],
        Concat(OpenTagEnd,
          Concat(InnerText(InnerLen(e, limit)), CloseTag))))

-----------------------------------------------------------------------------
(* The mutable state as one record, and the calls a handler makes *)

NoMessage == [startNewRun |-> FALSE, initialMessage |-> << >>]

\* The state a handler starts from: its own call log is empty
Cur ==
    [insp |-> isInspecting, rendered |-> renderedInspecting,
     wasPlaying |-> wasPlayingRef, hl |-> previousHighlightRef,
     saved |-> previousStyleRef, css |-> cssText, cursor |-> bodyCursor,
     listeners |-> listeners, hasCleanup |-> hasCleanup, playing |-> isPlaying,
     modalOpen |-> modalOpen, html |-> selectedHtml, preview |-> preview,
     query |-> query, log |-> << >>, msg |-> NoMessage]

\* the handler's result s, computed once, becomes the next state
Commit(s) ==
    \E r \in {s} :
        /\ isInspecting' = r.insp
        /\ renderedInspecting' = r.rendered
        /\ wasPlayingRef' = r.wasPlaying
        /\ previousHighlightRef' = r.hl
        /\ previousStyleRef' = r.saved
        /\ cssText' = r.css
        /\ bodyCursor' = r.cursor
        /\ listeners' = r.listeners
        /\ hasCleanup' = r.hasCleanup
        /\ isPlaying' = r.playing
        /\ modalOpen' = r.modalOpen
        /\ selectedHtml' = r.html
        /\ preview' = r.preview
        /\ query' = r.query
        /\ log' = r.log
        /\ lastMessage' = r.msg

setIsInspecting(s, v) ==
    [s EXCEPT !.insp = v,
              !.log = Append(@, IF v THEN "setIsInspecting(true)"
                                     ELSE "setIsInspecting(false)")]

togglePlayPause(s, play) ==
    [s EXCEPT !.playing = play,
              !.log = Append(@, IF play THEN "togglePlayPause(true)"
                                        ELSE "togglePlayPause(false)")]

closeModal(s) ==
    [s EXCEPT !.modalOpen = FALSE, !.html = << >>, !.preview = << >>,
              !.query = << >>, !.log = Append(@, "closeModal")]

openSeerExplorer(s, startNewRun, initialMessage) ==
    [s EXCEPT !.msg = [startNewRun |-> startNewRun,
                       initialMessage |-> initialMessage],
              !.log = Append(@, "openSeerExplorer")]

-----------------------------------------------------------------------------
(* replayInspectQueryModal.tsx *)

\* mutant: the preview cuts at >= instead of >
htmlPreview_OffByOne(html) ==
    IF Length(html) >= PREVIEW_LIMIT
    THEN Concat(Slice(html, PREVIEW_LIMIT), PREVIEW_SUFFIX)
    ELSE html

htmlPreview(html) ==
    IF Length(html) > PREVIEW_LIMIT
    THEN Concat(Slice(html, PREVIEW_LIMIT), PREVIEW_SUFFIX)
    ELSE html

\* openModal renders a fresh ReplayInspectQueryModal: query starts empty
openModal(s, html) ==
    [s EXCEPT !.modalOpen = TRUE, !.html = html, !.preview = htmlPreview(html),
              !.query = << >>, !.log = Append(@, "openModal")]

-----------------------------------------------------------------------------
(* replayDOMInspectButton.tsx *)

\* mutant: the prompt cuts at >= instead of >
buildSeerPrompt_OffByOne(userQuery, html) ==
    LET truncatedHtml ==
            IF Length(html) >= PROMPT_LIMIT
            THEN Concat(Slice(html, PROMPT_LIMIT), TRUNCATED_SUFFIX)
            ELSE html
    IN  << userQuery, PROMPT_INTRO, FENCE_OPEN, truncatedHtml, FENCE_CLOSE,
           PROMPT_OUTRO >>

buildSeerPrompt(userQuery, html) ==
    LET truncatedHtml ==
            IF Length(html) > PROMPT_LIMIT
            THEN Concat(Slice(html, PROMPT_LIMIT), TRUNCATED_SUFFIX)
            ELSE html
    IN  << userQuery, PROMPT_INTRO, FENCE_OPEN, truncatedHtml, FENCE_CLOSE,
           PROMPT_OUTRO >>

\* the onSubmit prop built by handleElementSelected; html is its closure's
onSubmit(s, q) ==
    LET s1 == closeModal(s)
    IN  openSeerExplorer(s1, TRUE, buildSeerPrompt(q, s.html))

\* mutant: the query is tested and passed untrimmed
handleSubmit_NoTrim(s) ==
    LET s1 == [s EXCEPT !.log = Append(@, "e.preventDefault()")]
    IN  IF s1.query # << >> THEN onSubmit(s1, s1.query) ELSE s1

handleSubmit(s) ==
    LET s1 == [s EXCEPT !.log = Append(@, "e.preventDefault()")]
    IN  IF Trim(s1.query) # << >> THEN onSubmit(s1, Trim(s1.query)) ELSE s1

\* mutant: the references are cleared but the style is not written back
cleanupHighlight_NoRestore(s) ==
    IF s.hl # Null
    THEN [s EXCEPT !.hl = Null, !.saved = << >>,
                   !.log = Append(@, "cssText restored")]
    ELSE s

\* the log notes the write of style.cssText
cleanupHighlight(s) ==
    IF s.hl # Null
    THEN [s EXCEPT !.css = [@ EXCEPT ![s.hl] = s.saved],
                   !.hl = Null, !.saved = << >>,
                   !.log = Append(@, "cssText restored")]
    ELSE s

\* mutant: wasPlayingRef is not reset after playback is resumed
stopInspecting_NoReset(s) ==
    LET s1 == setIsInspecting(s, FALSE)
        s2 == cleanupHighlight(s1)
        s3 == IF iframeReady THEN [s2 EXCEPT !.cursor = ""] ELSE s2
    IN  IF s3.wasPlaying THEN togglePlayPause(s3, TRUE) ELSE s3

stopInspecting(s) ==
    LET s1 == setIsInspecting(s, FALSE)
        s2 == cleanupHighlight(s1)
        s3 == IF iframeReady THEN [s2 EXCEPT !.cursor = ""] ELSE s2
    IN  IF s3.wasPlaying
        THEN [togglePlayPause(s3, TRUE) EXCEPT !.wasPlaying = FALSE]
        ELSE s3

\* mutant: the modal is opened before inspection is stopped
handleElementSelected_ModalFirst(s, html) == stopInspecting(openModal(s, html))

handleElementSelected(s, html) == openModal(stopInspecting(s), html)

\* mutant: the previous highlight is not restored before the next is drawn
handleMouseOver_NoCleanup(s, target) ==
    IF target \in Roots THEN s
    ELSE [s EXCEPT !.hl = target, !.saved = s.css[target],
                   !.css = [@ EXCEPT ![target] = Concat(@, HIGHLIGHT_STYLE)]]

handleMouseOver(s, target) ==
    IF target \in Roots THEN s
    ELSE LET s1 == cleanupHighlight(s)
         IN  [s1 EXCEPT !.hl = target, !.saved = s1.css[target],
                        !.css = [@ EXCEPT ![target] = Concat(@, HIGHLIGHT_STYLE)]]

\* mutant: every mouseout restores the highlight
handleMouseOut_AnyTarget(s, target) == cleanupHighlight(s)

handleMouseOut(s, target) ==
    IF target = s.hl THEN cleanupHighlight(s) ELSE s

\* e.preventDefault(), e.stopPropagation() and e.stopImmediatePropagation()
\* come first, whatever the target
handleClick(s, target) ==
    LET s1 == [s EXCEPT !.log = Append(@, "e.preventDefault()")]
    IN  IF target \in Roots THEN s1
        ELSE handleElementSelected(
                 s1, Slice(outerHTML(s1.css, target, domLimit), CAPTURE_LIMIT))

\* mutant: every key stops inspection
handleKeyDown_AnyKey(s, key) == stopInspecting(s)

handleKeyDown(s, key) ==
    IF key = "Escape" THEN stopInspecting(s) ELSE s

\* mutant: the cleanup forgets the parent document's keydown listener
effectCleanup_KeepsParentKeydown(s) ==
    IF s.hasCleanup
    THEN [s EXCEPT !.listeners =
                       [k \in ListenerKeys |->
                           IF k = "parent:keydown" THEN @[k] ELSE @[k] - 1],
                   !.hasCleanup = FALSE]
    ELSE s

\* the cleanup function returned by the previous run of the effect, if any
effectCleanup(s) ==
    IF s.hasCleanup
    THEN [s EXCEPT !.listeners = [k \in ListenerKeys |-> @[k] - 1],
                   !.hasCleanup = FALSE]
    ELSE s

\* the effect body, run by a render that saw isInspecting = s.insp
effectSetup(s) ==
    LET r == [s EXCEPT !.rendered = s.insp]
    IN  IF ~s.insp THEN r
        ELSE IF ~iframeReady THEN setIsInspecting(r, FALSE)
        ELSE [r EXCEPT !.cursor = "crosshair",
                       !.listeners = [k \in ListenerKeys |-> @[k] + 1],
                       !.hasCleanup = TRUE]

\* a render whose effect runs: the old cleanup, then the body
useEffect(s) == effectSetup(effectCleanup(s))

Has(l, x) == \E i \in DOMAIN l : l[i] = x

Before(l, x, y) == \E i, j \in DOMAIN l : i < j /\ l[i] = x /\ l[j] = y

Count(l, x) == Cardinality({i \in DOMAIN l : l[i] = x})

\* the synchronous render React makes when a handler it dispatched at discrete
\* priority has called setIsInspecting; a handler that set nothing renders nothing
flushSync(s) ==
    IF /\ Has(s.log, "setIsInspecting(true)") \/ Has(s.log, "setIsInspecting(false)")
       /\ s.insp # s.rendered
    THEN useEffect(s)
    ELSE s

\* mutant: no check of the iframe before inspection starts
handleToggleInspect_NoGuard(s) ==
    IF s.rendered THEN stopInspecting(s)
    ELSE LET s1 == IF s.playing
                   THEN togglePlayPause([s EXCEPT !.wasPlaying = TRUE], FALSE)
                   ELSE s
         IN  setIsInspecting(s1, TRUE)

\* isInspecting is the closure's value, that of the last render
handleToggleInspect(s) ==
    IF s.rendered THEN stopInspecting(s)
    ELSE IF ~iframeReady THEN [s EXCEPT !.log = Append(@, "return: no iframe")]
    ELSE LET s1 == IF s.playing
                   THEN togglePlayPause([s EXCEPT !.wasPlaying = TRUE], FALSE)
                   ELSE s
         IN  setIsInspecting(s1, TRUE)

-----------------------------------------------------------------------------
(* Actions *)

Init ==
    /\ mounted = TRUE
    /\ isInspecting = FALSE
    /\ renderedInspecting = FALSE
    /\ wasPlayingRef = FALSE
    /\ previousHighlightRef = Null
    /\ previousStyleRef = << >>
    /\ cssText = [e \in Elements |-> OrigStyle(e)]
    /\ bodyCursor = ""
    /\ listeners = [k \in ListenerKeys |-> 0]
    /\ hasCleanup = FALSE
    /\ iframeReady \in BOOLEAN
    /\ isPlaying \in BOOLEAN
    /\ domLimit \in {PREVIEW_LIMIT, PROMPT_LIMIT, CAPTURE_LIMIT}
    /\ modalOpen = FALSE
    /\ selectedHtml = << >>
    /\ preview = << >>
    /\ query = << >>
    /\ log = << >>
    /\ lastMessage = NoMessage
    /\ sessionWasPlaying = FALSE

\* the user clicks the inspect button
ToggleInspect ==
    /\ mounted
    /\ Commit(flushSync(handleToggleInspect(Cur)))
    /\ sessionWasPlaying' =
           IF ~renderedInspecting /\ iframeReady THEN isPlaying
           ELSE sessionWasPlaying
    /\ UNCHANGED << mounted, iframeReady, domLimit >>

IframeListening(k) == iframeReady /\ listeners[k] > 0

MouseOver(target) ==
    /\ IframeListening("iframe:mouseover")
    /\ Commit(handleMouseOver(Cur, target))
    /\ UNCHANGED << mounted, iframeReady, domLimit, sessionWasPlaying >>

MouseOut(target) ==
    /\ IframeListening("iframe:mouseout")
    /\ Commit(handleMouseOut(Cur, target))
    /\ UNCHANGED << mounted, iframeReady, domLimit, sessionWasPlaying >>

Click(target) ==
    /\ IframeListening("iframe:click")
    /\ Commit(handleClick(Cur, target))
    /\ UNCHANGED << mounted, iframeReady, domLimit, sessionWasPlaying >>

IframeKeyDown(key) ==
    /\ IframeListening("iframe:keydown")
    /\ Commit(handleKeyDown(Cur, key))
    /\ UNCHANGED << mounted, iframeReady, domLimit, sessionWasPlaying >>

ParentKeyDown(key) ==
    /\ listeners["parent:keydown"] > 0
    /\ Commit(flushSync(handleKeyDown(Cur, key)))
    /\ UNCHANGED << mounted, iframeReady, domLimit, sessionWasPlaying >>

\* a deferred render, or one caused by a changed dependency of the effect
Render ==
    /\ mounted
    /\ Commit(useEffect(Cur))
    /\ UNCHANGED << mounted, iframeReady, domLimit, sessionWasPlaying >>

Unmount ==
    /\ mounted
    /\ mounted' = FALSE
    /\ Commit(effectCleanup(Cur))
    /\ UNCHANGED << iframeReady, domLimit, sessionWasPlaying >>

\* the values one keystroke makes of the input's value
Keystrokes(value) ==
    {Concat(value, Repeat(c, 1)) :
        c \in IF Length(value) < MaxQueryLen THEN QueryChars ELSE {}}
      \cup (IF value = << >> THEN {} ELSE {Slice(value, Length(value) - 1)})

\* the user edits the modal's input: onChange sets query to the input's value
SetQuery(q) ==
    /\ modalOpen
    /\ q \in Keystrokes(query)
    /\ Commit([Cur EXCEPT !.query = q])
    /\ UNCHANGED << mounted, iframeReady, domLimit, sessionWasPlaying >>

Submit ==
    /\ modalOpen
    /\ Commit(handleSubmit(Cur))
    /\ UNCHANGED << mounted, iframeReady, domLimit, sessionWasPlaying >>

Cancel ==
    /\ modalOpen
    /\ Commit(closeModal(Cur))
    /\ UNCHANGED << mounted, iframeReady, domLimit, sessionWasPlaying >>

\* the replay iframe or its document goes away or comes back
IframeChange ==
    /\ iframeReady' = ~iframeReady
    /\ Commit(Cur)
    /\ UNCHANGED << mounted, domLimit, sessionWasPlaying >>

\* the user presses the player's own play/pause control
UserPlayPause ==
    /\ Commit([Cur EXCEPT !.playing = ~isPlaying])
    /\ UNCHANGED << mounted, iframeReady, domLimit, sessionWasPlaying >>

Next ==
    \/ ToggleInspect
    \/ \E target \in Targets : MouseOver(target)
    \/ \E target \in Targets : MouseOut(target)
    \/ \E target \in Targets : Click(target)
    \/ \E key \in Keys : IframeKeyDown(key)
    \/ \E key \in Keys : ParentKeyDown(key)
    \/ Render
    \/ Unmount
    \/ \E q \in QueryValues : SetQuery(q)
    \/ Submit
    \/ Cancel
    \/ IframeChange
    \/ UserPlayPause

Spec == Init /\ [][Next]_vars

-----------------------------------------------------------------------------
(* Shared vocabulary of the properties *)

\* what the component and the modal hold, without the per-handler call log
progVars ==
    << isInspecting, renderedInspecting, wasPlayingRef, previousHighlightRef,
       previousStyleRef, cssText, bodyCursor, listeners, hasCleanup, isPlaying,
       modalOpen, selectedHtml, preview, query >>

\* the last render saw the current value of isInspecting: no render is pending
EffectSettled == mounted /\ renderedInspecting = isInspecting

PageStyles == [e \in Elements |-> OrigStyle(e)]

\* a step that ends inspection through stopInspecting.  handleClick calls
\* e.preventDefault() before anything else, so the test on the log only spares
\* evaluating Click on the steps of other events.
ClickOn(target) == Has(log', "e.preventDefault()") /\ Click(target)

ClickOnElement == \E target \in Elements : ClickOn(target)

EscapeStep == IframeKeyDown("Escape") \/ ParentKeyDown("Escape")

ToggleOff == renderedInspecting /\ ToggleInspect

EndStep == ClickOnElement \/ EscapeStep \/ ToggleOff

-----------------------------------------------------------------------------
\* C1: once the effect has settled, each of the five capture listeners is
\* attached exactly once when isInspecting is true and not at all when it is
\* false; no listener is ever attached more than once.
C1_ListenerParity ==
    /\ \A k \in ListenerKeys : listeners[k] \in {0, 1}
    /\ EffectSettled =>
           \A k \in ListenerKeys : listeners[k] = IF isInspecting THEN 1 ELSE 0

\* inspecting, settled after a hover, with all five listeners attached
C1_Witness ==
    /\ EffectSettled /\ isInspecting
    /\ previousHighlightRef # Null
    /\ \A k \in ListenerKeys : listeners[k] = 1

Resumed == "togglePlayPause(true)"

Paused == "togglePlayPause(false)"

NoListeners == \A k \in ListenerKeys : listeners[k] = 0

\* the markup embedded in a prompt, between the code fences
EmbeddedHtml(message) == message.initialMessage[4]

\* a step in which openSeerExplorer is called
ExplorerOpened == Has(log', "openSeerExplorer")

\* p holds the first characters of s, stated on the runs: p's runs but the
\* last are runs of s, and the last is no longer than the run of s there
IsPrefixOf(p, s) ==
    \/ p = << >>
    \/ /\ Len(p) <= Len(s)
       /\ \A i \in 1..(Len(p) - 1) : p[i] = s[i]
       /\ p[Len(p)][1] = s[Len(p)][1]
       /\ p[Len(p)][2] <= s[Len(p)][2]

\* whole is the first n characters of s followed by suffix, the n-th
\* character of s not being the first of suffix
IsCutOf(whole, s, n, suffix) ==
    LET k == Len(whole) - Len(suffix)
    IN  /\ k >= 0
        /\ Length(SubSeq(whole, 1, k)) = n
        /\ IsPrefixOf(SubSeq(whole, 1, k), s)
        /\ SubSeq(whole, k + 1, Len(whole)) = suffix

-----------------------------------------------------------------------------
\* C2: toggling inspection on while playing calls togglePlayPause(false)
\* before setIsInspecting(true); ending a session that was started while
\* playing, by a click on an element, Escape or toggle-off, calls
\* togglePlayPause(true); a session started while not playing never calls
\* togglePlayPause.
C2_PauseBeforeInspecting ==
    (ToggleInspect /\ ~renderedInspecting /\ iframeReady /\ isPlaying)
        => Before(log', Paused, "setIsInspecting(true)")

C2_ResumeAtEnd ==
    (isInspecting /\ sessionWasPlaying /\ EndStep) => Has(log', Resumed)

C2_NoCallIfNotPlaying ==
    (isInspecting /\ ~sessionWasPlaying)
        => (~Has(log', Resumed) /\ ~Has(log', Paused))

C2_PauseResumePairing ==
    [][C2_PauseBeforeInspecting /\ C2_ResumeAtEnd /\ C2_NoCallIfNotPlaying]_vars

-----------------------------------------------------------------------------
\* C3: right after inspection is ended by a click on an element, Escape or
\* toggle-off, every element has the page's own inline style again (none
\* keeps the outline), previousHighlightRef is null and previousStyleRef is
\* the empty string.
C3_HighlightRestored ==
    [][EndStep => /\ cssText' = PageStyles
                  /\ previousHighlightRef' = Null
                  /\ previousStyleRef' = << >>]_vars

\* inspection has just been stopped and a highlighted element was restored
C3_Witness ==
    /\ ~isInspecting
    /\ Before(log, "setIsInspecting(false)", "cssText restored")
    /\ cssText = PageStyles
    /\ previousHighlightRef = Null

-----------------------------------------------------------------------------
\* C4: a click on an element captures the first 10,000 characters of its
\* outer markup (all of it when shorter), stops inspection (isInspecting
\* false, highlight restored, body cursor cleared, playback resumed if
\* wasPlayingRef was set) and only then opens the modal, once, with the
\* captured markup.
C4_ClickHandOff ==
    [][\A target \in Elements :
         ClickOn(target) =>
           \E markup \in {outerHTML(cssText, target, domLimit)},
              captured \in {selectedHtml'} :
               /\ Length(captured) = IF Length(markup) < CAPTURE_LIMIT
                                     THEN Length(markup) ELSE CAPTURE_LIMIT
               /\ IsPrefixOf(captured, markup)
               /\ modalOpen'
               /\ ~isInspecting'
               /\ previousHighlightRef' = Null
               /\ previousStyleRef' = << >>
               /\ cssText' = PageStyles
               /\ bodyCursor' = ""
               /\ wasPlayingRef' = FALSE
               /\ IF wasPlayingRef
                  THEN isPlaying' /\ Before(log', Resumed, "openModal")
                  ELSE isPlaying' = isPlaying /\ ~Has(log', Resumed)
               /\ previousHighlightRef # Null
                    => Before(log', "cssText restored", "openModal")
               /\ Before(log', "setIsInspecting(false)", "openModal")
               /\ Count(log', "openModal") = 1
               /\ log'[Len(log')] = "openModal"]_vars

\* a click cut the markup at 10,000 characters, resumed playback and then
\* opened the modal
C4_Witness ==
    /\ modalOpen
    /\ Length(selectedHtml) = CAPTURE_LIMIT
    /\ log = << "e.preventDefault()", "setIsInspecting(false)",
                "cssText restored", Resumed, "openModal" >>

-----------------------------------------------------------------------------
\* C5: while inspecting, Escape on the iframe document or on the parent
\* document stops inspection (isInspecting false, highlight restored,
\* playback resumed if it was playing before) without opening the modal or
\* capturing markup, and the listeners are detached by the render that
\* follows; any other key changes nothing.
C5_EscapeStops ==
    (isInspecting /\ EscapeStep) =>
        /\ ~isInspecting'
        /\ previousHighlightRef' = Null
        /\ previousStyleRef' = << >>
        /\ cssText' = PageStyles
        /\ wasPlayingRef' = FALSE
        /\ sessionWasPlaying => Has(log', Resumed)
        /\ IF wasPlayingRef THEN isPlaying' /\ Has(log', Resumed)
           ELSE isPlaying' = isPlaying
        /\ ~Has(log', "openModal")
        /\ lastMessage' = NoMessage
        /\ UNCHANGED << modalOpen, selectedHtml, preview, query >>

C5_ListenersDetached ==
    /\ (isInspecting /\ ParentKeyDown("Escape")) => NoListeners'
    /\ (~isInspecting /\ Render) => NoListeners'

C5_OtherKeyNoOp ==
    \A key \in Keys \ {"Escape"} :
        (IframeKeyDown(key) \/ ParentKeyDown(key))
            => (UNCHANGED progVars /\ log' = << >>)

C5_EscapeCancels ==
    [][C5_EscapeStops /\ C5_ListenersDetached /\ C5_OtherKeyNoOp]_vars

\* Escape on the iframe document has just stopped a session with a highlight
\* and paused playback; its listeners await the next render
C5_Witness ==
    /\ ~isInspecting /\ renderedInspecting
    /\ ~NoListeners
    /\ ~modalOpen
    /\ log = << "setIsInspecting(false)", "cssText restored", Resumed >>

-----------------------------------------------------------------------------
\* C6: the prompt embeds the selected markup unchanged when it is at most
\* 5,000 characters long, and otherwise its first 5,000 characters followed
\* by "\n... (truncated)"; the selected markup is never longer than 10,000
\* characters, and the embedded markup never longer than 5,000 plus the
\* suffix.
C6_Embedding ==
    ExplorerOpened =>
        \E html \in {selectedHtml}, emb \in {EmbeddedHtml(lastMessage')} :
            /\ Length(html) <= PROMPT_LIMIT => emb = html
            /\ Length(html) > PROMPT_LIMIT =>
                   IsCutOf(emb, html, PROMPT_LIMIT, TRUNCATED_SUFFIX)
            /\ Length(emb) <= PROMPT_LIMIT + Length(TRUNCATED_SUFFIX)

C6_CaptureBounded == \E html \in {selectedHtml'} : Length(html) <= CAPTURE_LIMIT

C6_PromptTruncation == [][C6_CaptureBounded /\ C6_Embedding]_vars

\* a prompt was built from markup longer than 5,000 characters
C6_Witness ==
    /\ Has(log, "openSeerExplorer")
    /\ Length(EmbeddedHtml(lastMessage))
         = PROMPT_LIMIT + Length(TRUNCATED_SUFFIX)

-----------------------------------------------------------------------------
\* C7: a submit with an empty or whitespace-only query changes nothing; any
\* other submit closes the modal and then calls openSeerExplorer once, with
\* startNewRun true and the prompt built from the trimmed query; Cancel
\* closes the modal and does not call openSeerExplorer.
Blank(q) == \A i \in DOMAIN q : q[i][1] = " "

\* t is q without its leading and trailing spaces
IsTrimOf(t, q) ==
    /\ t # << >> => (t[1][1] # " " /\ t[Len(t)][1] # " ")
    /\ \E i, j \in 0..MaxQueryLen + 1 :
         q = Concat(Repeat(" ", i), Concat(t, Repeat(" ", j)))

C7_Submit ==
    Submit =>
        IF Blank(query)
        THEN /\ UNCHANGED progVars
             /\ log' = << "e.preventDefault()" >>
             /\ lastMessage' = NoMessage
        ELSE /\ log' = << "e.preventDefault()", "closeModal", "openSeerExplorer" >>
             /\ ~modalOpen'
             /\ lastMessage'.startNewRun = TRUE
             /\ IsTrimOf(lastMessage'.initialMessage[1], query)
             /\ lastMessage'.initialMessage =
                    buildSeerPrompt(lastMessage'.initialMessage[1], selectedHtml)

C7_Cancel ==
    Cancel => /\ ~modalOpen'
              /\ ~Has(log', "openSeerExplorer")
              /\ lastMessage' = NoMessage

C7_SubmitGating == [][C7_Submit /\ C7_Cancel]_vars

\* an accepted submit closed the modal and then opened the explorer
C7_Witness ==
    /\ ~modalOpen
    /\ log = << "e.preventDefault()", "closeModal", "openSeerExplorer" >>
    /\ lastMessage.startNewRun = TRUE
    /\ lastMessage.initialMessage[1] = Str(<< "a" >>)

-----------------------------------------------------------------------------
\* C8: a toggle while not inspecting and while the iframe or its document is
\* missing changes nothing: isInspecting stays false, playback is not
\* paused, wasPlayingRef is not set, no listener is attached.
C8_MissingIframeGuard ==
    [][(ToggleInspect /\ ~renderedInspecting /\ ~iframeReady) =>
           /\ UNCHANGED progVars
           /\ ~isInspecting'
           /\ NoListeners'
           /\ ~Has(log', Paused)
           /\ ~Has(log', "setIsInspecting(true)")]_vars

\* the toggle returned at the guard while playback was running
C8_Witness ==
    /\ log = << "return: no iframe" >>
    /\ ~iframeReady /\ ~isInspecting /\ ~renderedInspecting
    /\ isPlaying /\ ~wasPlayingRef

-----------------------------------------------------------------------------
\* C9: whenever an inspection session ends, wasPlayingRef is true only if
\* playback was playing when that session was toggled on, so a session
\* started while paused never ends with togglePlayPause(true).
C9_WasPlayingOfThisSession ==
    [][(isInspecting /\ ~isInspecting') =>
           /\ wasPlayingRef => sessionWasPlaying
           /\ ~sessionWasPlaying => ~Has(log', Resumed)]_vars

-----------------------------------------------------------------------------
\* C10: the modal's preview is the selected markup when that is at most 200
\* characters long, and otherwise its first 200 characters followed by
\* "..."; the prompt is built from the selected markup, not from the preview.
C10_PreviewOf(shown, html) ==
    IF Length(html) <= PREVIEW_LIMIT
    THEN shown = html
    ELSE IsCutOf(shown, html, PREVIEW_LIMIT, Repeat(".", 3))

\* in the state a step reaches; Init has no modal
C10_PreviewShows ==
    modalOpen' =>
        \E shown \in {preview'}, html \in {selectedHtml'} :
            C10_PreviewOf(shown, html)

\* the prompt carries the selected markup whole up to 5,000 characters, also
\* when the preview of it was cut
C10_PromptFromMarkup ==
    (ExplorerOpened /\ Length(selectedHtml) <= PROMPT_LIMIT)
        => /\ lastMessage'.initialMessage[4] = selectedHtml
           /\ Length(selectedHtml) > PREVIEW_LIMIT
                => lastMessage'.initialMessage[4] # preview

C10_PreviewTruncation == [][C10_PreviewShows /\ C10_PromptFromMarkup]_vars

\* the modal shows a cut preview of markup one character over the limit
C10_Witness ==
    /\ modalOpen
    /\ Length(selectedHtml) = PREVIEW_LIMIT + 1
    /\ Length(preview) = PREVIEW_LIMIT + 3

-----------------------------------------------------------------------------
\* C11: in every reachable state at most one element carries the appended
\* highlight style; previousHighlightRef is non-null exactly when some element
\* carries it and then names that element, and previousStyleRef is that
\* element's inline style from before the highlight was appended (also after
\* two mouseovers in a row on the same element); every other element has the
\* page's own style.
Highlighted(e) == cssText[e] = Concat(OrigStyle(e), HIGHLIGHT_STYLE)

C11_SingleHighlight ==
    /\ Cardinality({e \in Elements : Highlighted(e)}) <= 1
    /\ \A e \in Elements :
          /\ Highlighted(e) <=> previousHighlightRef = e
          /\ ~Highlighted(e) => cssText[e] = OrigStyle(e)
          /\ previousHighlightRef = e => previousStyleRef = OrigStyle(e)
    /\ previousHighlightRef \in Elements \cup {Null}
    /\ previousHighlightRef = Null => previousStyleRef = << >>

\* a mouseover moved the highlight: the previous element was restored and e2,
\* whose own style is not empty, carries the outline
C11_Witness ==
    /\ isInspecting
    /\ log = << "cssText restored" >>
    /\ previousHighlightRef = "e2"
    /\ Highlighted("e2")
    /\ previousStyleRef = OrigStyle("e2")

-----------------------------------------------------------------------------
\* C12: while inspecting, a mouseover on body or documentElement leaves the
\* highlight (element, saved style, element styles) as it is; a mouseout whose
\* target is not the highlighted element leaves it as it is; a click on body
\* or documentElement keeps inspection active, captures nothing, opens no
\* modal and does not touch playback.
HighlightVars == << previousHighlightRef, previousStyleRef, cssText >>

C12_RootMouseOver ==
    \A root \in Roots :
        (isInspecting /\ MouseOver(root))
            => (UNCHANGED HighlightVars /\ log' = << >>)

C12_OtherMouseOut ==
    \A target \in Targets :
        (isInspecting /\ target # previousHighlightRef /\ MouseOut(target))
            => (UNCHANGED HighlightVars /\ log' = << >>)

C12_RootClick ==
    \A root \in Roots :
        (isInspecting /\ Click(root)) =>
            /\ isInspecting'
            /\ UNCHANGED progVars
            /\ log' = << "e.preventDefault()" >>
            /\ lastMessage' = NoMessage

C12_RootNoOps == [][C12_RootMouseOver /\ C12_OtherMouseOut /\ C12_RootClick]_vars

\* a click on a root target was swallowed while an element was highlighted
C12_Witness ==
    /\ isInspecting /\ ~modalOpen
    /\ previousHighlightRef # Null
    /\ log = << "e.preventDefault()" >>

-----------------------------------------------------------------------------
\* C13: whenever isInspecting goes from true to false, for whatever reason
\* (the effect finding the iframe or its document missing included),
\* playback that the toggle had paused is resumed by togglePlayPause(true)
\* and wasPlayingRef is false afterwards.
C13_ResumeOnEveryExit ==
    [][(isInspecting /\ ~isInspecting') =>
           /\ wasPlayingRef => (Has(log', Resumed) /\ isPlaying')
           /\ ~wasPlayingRef']_vars

-----------------------------------------------------------------------------
\* C14: for a click on the element the preceding mouseover highlighted, the
\* markup handed to the modal (and from there to the prompt) is the element's
\* markup with its original inline style, without the outline and cursor
\* declarations the hover appended.
C14_CapturedOwnMarkup ==
    [][\A target \in Elements :
         (previousHighlightRef = target /\ ClickOn(target)) =>
            \E captured \in {selectedHtml'} :
                captured = Slice(outerHTML(PageStyles, target, domLimit),
                                 CAPTURE_LIMIT)]_vars

-----------------------------------------------------------------------------
\* C15: a second call of stopInspecting with no toggle-on in between (an
\* Escape, a toggle-off or a click delivered after an iframe listener has
\* already stopped inspection and before the listeners are detached) makes
\* no togglePlayPause call and, nothing having been highlighted since, no
\* style change; a second Escape or toggle-off only repeats
\* setIsInspecting(false).

\* an iframe listener has called stopInspecting and the render that detaches
\* the listeners has not happened yet: the only way isInspecting is false
\* while listeners are attached
StoppedNotDetached == ~isInspecting /\ ~NoListeners

C15_SecondStop ==
    (StoppedNotDetached /\ EndStep) =>
        /\ ~Has(log', Resumed) /\ ~Has(log', Paused)
        /\ isPlaying' = isPlaying
        /\ ~wasPlayingRef /\ ~wasPlayingRef'
        /\ ~isInspecting'
        /\ previousHighlightRef = Null => cssText' = cssText
        /\ cssText' = PageStyles

C15_SecondStopOnlyRepeats ==
    (StoppedNotDetached /\ previousHighlightRef = Null
        /\ (EscapeStep \/ ToggleOff))
        => /\ log' = << "setIsInspecting(false)" >>
           /\ UNCHANGED << wasPlayingRef, previousHighlightRef, previousStyleRef,
                           cssText, bodyCursor, isPlaying, modalOpen,
                           selectedHtml, preview, query >>

C15_StopIdempotent == [][C15_SecondStop /\ C15_SecondStopOnlyRepeats]_vars

\* a second Escape on the iframe document, in a session started while
\* playing: the first one resumed playback, this one called nothing more
C15_Witness ==
    /\ StoppedNotDetached
    /\ sessionWasPlaying /\ ~wasPlayingRef
    /\ log = << "setIsInspecting(false)" >>

-----------------------------------------------------------------------------
\* C16: whenever the capture listeners are detached (the component
\* unmounting while inspecting included), no element keeps the highlight
\* style, the iframe body's cursor is not 'crosshair', and playback that
\* inspection had paused has been resumed (wasPlayingRef is false again).
C16_CleanupOnTeardown ==
    [][(~NoListeners /\ NoListeners') =>
           /\ cssText' = PageStyles
           /\ previousHighlightRef' = Null
           /\ bodyCursor' # "crosshair"
           /\ ~wasPlayingRef']_vars

=============================================================================
